---- MODULE Spec2Model ----
(***************************************************************************)
(* minidb: an in-memory key/value store with a per-key reservation         *)
(* protocol (src/minidb/main.go).  Every HTTP request runs its handler in  *)
(* its own goroutine; the model interleaves the handlers at the            *)
(* granularity of their accesses to shared memory (the cache's RWMutex,    *)
(* the storage map, an entry's mutex, condition variable, value, lockID).  *)
(* handleUpdate reads and writes entry.lockID and entry.value without      *)
(* taking the entry's mutex, and the two other handlers read them again    *)
(* after Unlock: each such access is a step of its own, so that a racing   *)
(* access sees the field before or after any other handler's write.        *)
(* Accesses made with the entry's mutex held are joined to the Lock or     *)
(* Unlock next to them where no unlocked access can tell the difference.   *)
(*                                                                         *)
(* A goroutine slot is reused by later requests; what the claims need of   *)
(* finished requests is kept in resp (the response written last), known    *)
(* and held (the lock ids the clients were given, and still hold).         *)
(* Clients present lock ids they were given, or one that was never issued. *)
(* Cache.RWMutex is modelled without the queueing of a pending writer.     *)
(* The mapping has room for one key more than Spec's clients name; the     *)
(* clients of SpecKeys name both, for the claims about two keys.           *)
(***************************************************************************)
EXTENDS Integers, Sequences, FiniteSets, TLC

\* ---- bounds of the model ------------------------------------------------
NReq == 2        \* requests in service at the same time (one goroutine each)
NKeys == 1       \* distinct keys the requests name
MaxUUID == 4     \* calls of uuid() for one key in one run
MaxCalls == 6    \* calls of uuid() in one run of the clients that name two keys

\* ---- values ---------------------------------------------------------------
EmptyID == 0     \* the lock id "" of an unlocked entry
BogusID == MaxUUID * (NKeys + 1) + 1   \* a lock_id no uuid() call of the run returns
NoEntry == 0     \* storage[key] absent (ok = false)
NoOwner == 0     \* an entry mutex nobody holds
NoKey == 0       \* the key of a request that never parsed one

StatusOK == 200
StatusNoContent == 204
StatusBadRequest == 400
StatusUnauthorized == 401
StatusNotFound == 404
StatusInternalServerError == 500

Reqs == 1..NReq
Keys == 1..NKeys
\* a key beside those: the cross-key claims need a second key in the mapping
OtherKey == NKeys + 1
AllKeys == Keys \cup {OtherKey}
Bodies == {"x", "y"}
\* req.URL.Query()["release"]: the list of the parameter's values, empty when absent
Releases == {<<>>, <<"true">>, <<"false">>}

VARIABLES
    storage,    \* Cache.storage: key -> index of its Entry in heap, NoEntry when absent
    heap,       \* the Entry objects allocated so far (value, lockID, mutex, cond)
    cacheW,     \* Cache.RWMutex is write-locked
    cacheR,     \* the requests holding Cache.RWMutex for reading
    req,        \* per goroutine: handler, position, inputs, locals
    issued,     \* per key: number of uuid() calls made for it so far
    crashed,    \* the process died of a runtime fatal error
    resp,       \* the response written last, with the request it answers
    known,      \* the lock ids that responses have delivered to clients
    held        \* per key: delivered lock ids that no releasing update has presented yet

vars == <<storage, heap, cacheW, cacheR, req, issued, crashed, resp, known, held>>

\* Entry, main.go:20-25: mu is the owner of the embedded mutex, notify the
\* goroutines parked on cond
NewEntry(id) == [value |-> "", lockID |-> id, mu |-> NoOwner, notify |-> {}]

\* a goroutine slot serving no request; quiet: the reserve arrived when the
\* response written last was the 204 of a releasing update on its key and no
\* other request was in service, and no request has arrived since
IdleReq ==
    [op |-> "none", pc |-> "idle", key |-> NoKey, lockID |-> EmptyID, body |-> "",
     release |-> <<>>, entry |-> NoEntry, ok |-> FALSE, rid |-> EmptyID,
     quiet |-> FALSE]

NoResp ==
    [op |-> "none", key |-> NoKey, body |-> "", release |-> <<>>,
     status |-> 0, rid |-> EmptyID, rvalue |-> ""]

\* NewServer, main.go:46-65: an empty storage map
Init ==
    /\ storage = [k \in AllKeys |-> NoEntry]
    /\ heap = <<>>
    /\ cacheW = FALSE
    /\ cacheR = {}
    /\ req = [r \in Reqs |-> IdleReq]
    /\ issued = [k \in AllKeys |-> 0]
    /\ crashed = FALSE
    /\ resp = NoResp
    /\ known = {}
    /\ held = [k \in AllKeys |-> {}]

RECURSIVE Calls(_)
\* the uuid() calls made for the keys of S
Calls(S) ==
    IF S = {} THEN 0
    ELSE LET k == CHOOSE x \in S : TRUE IN issued[k] + Calls(S \ {k})

\* uuid(), main.go:230-245: 122 random bits; modelled as a value never returned before
uuid == Calls(AllKeys) + 1

\* the lowest free goroutine slot takes the arriving request
Arrives(r) ==
    /\ ~crashed
    /\ req[r].pc = "idle"
    /\ \A q \in Reqs : q < r => req[q].pc # "idle"

Quiet(r) == \A q \in Reqs \ {r} : req[q].pc = "idle"

\* mutant of Releasing: any first value but "false" releases
ReleasingUnlessFalse(rel) == Len(rel) > 0 /\ rel[1] # "false"

\* the test of main.go:146
Releasing(rel) == Len(rel) > 0 /\ rel[1] = "true"

\* the response written last answers a successful releasing update on key k
Released(k) ==
    /\ resp.op = "update" /\ resp.status = StatusNoContent
    /\ Releasing(resp.release) /\ resp.key = k

\* the arriving request takes slot r with the locals rec
Admit(r, rec) ==
    req' = [q \in Reqs |-> IF q = r THEN rec ELSE [req[q] EXCEPT !.quiet = FALSE]]

At(r, op, pc) == ~crashed /\ req[r].op = op /\ req[r].pc = pc

\* the handler returns: the response is on the wire and the goroutine ends
Respond(r, op, code, id, value) ==
    /\ req' = [req EXCEPT ![r] = IdleReq]
    /\ resp' = [op |-> op, key |-> req[r].key,
                body |-> req[r].body, release |-> req[r].release,
                status |-> code, rid |-> id, rvalue |-> value]

\* a request answered on arrival
Reject(r, op, code) ==
    /\ Admit(r, IdleReq)
    /\ resp' = [NoResp EXCEPT !.op = op, !.status = code]

\* sendError; return (main.go:68-70)
sendError(r, op, code) == Respond(r, op, code, EmptyID, "")

\* a 200 response of reserve or set hands its lock_id to the client
Deliver(k, id) ==
    /\ known' = IF id = EmptyID THEN known ELSE known \cup {id}
    /\ held' = IF id = EmptyID THEN held ELSE [held EXCEPT ![k] = @ \cup {id}]

\* Cache.Unlock() of sync.RWMutex: releases the write lock whoever holds it;
\* on a mutex that is not write-locked the runtime ends the process
\* ("fatal error: sync: Unlock of unlocked RWMutex")
CacheUnlock ==
    IF cacheW THEN cacheW' = FALSE /\ crashed' = crashed
    ELSE cacheW' = cacheW /\ crashed' = TRUE

\* uuid() calls a request in flight may still make
Need(r) ==
    CASE req[r].op = "reserve" /\ req[r].pc \in {"r_runlock", "r_lock", "r_wait", "r_parked", "r_assign"}
             -> IF req[r].ok THEN 1 ELSE 0
      [] req[r].op = "set" /\ req[r].pc = "s_lookup" -> 2
      [] req[r].op = "set" /\ req[r].pc = "s_insert" -> 2
      [] req[r].op = "set" /\ req[r].pc \in {"s_unlock", "s_elock", "s_wait", "s_parked", "s_assign"} -> 1
      [] OTHER -> 0

SumNeed(S) == Cardinality({r \in S : Need(r) >= 1}) + Cardinality({r \in S : Need(r) >= 2})

\* a request on key k is admitted only when the key's uuid() budget covers it
Budget(k, n) == issued[k] + SumNeed({r \in Reqs : req[r].key = k}) + n <= MaxUUID

\* ---- the entry's monitor ---------------------------------------------------
\* entry.Lock() followed by the loop test `for wait && entry.lockID != ""`
\* (main.go:97-98, 177-180): the test reads lockID with the mutex held
LockAndTest(r, wait, pcWait, pcGo) ==
    LET e == req[r].entry IN
    /\ heap[e].mu = NoOwner
    /\ heap' = [heap EXCEPT ![e].mu = r]
    /\ req' = [req EXCEPT ![r].pc = IF wait /\ heap[e].lockID # EmptyID THEN pcWait ELSE pcGo]

\* entry.cond.Wait(), first half (main.go:99, 181): the goroutine joins the
\* notify list and unlocks the mutex
CondWait(r, pcParked) ==
    LET e == req[r].entry IN
    /\ heap' = [heap EXCEPT ![e].notify = @ \cup {r}, ![e].mu = NoOwner]
    /\ req' = [req EXCEPT ![r].pc = pcParked]

\* entry.cond.Wait(), second half: once notified the goroutine locks the
\* mutex again and the loop tests lockID again
CondWake(r, pcWait, pcGo) ==
    LET e == req[r].entry IN
    /\ r \notin heap[e].notify
    /\ LockAndTest(r, TRUE, pcWait, pcGo)

\* ---- handleReservation, main.go:78-109 -------------------------------------
\* mutant of ReserveLookup: a missing key gets an unlocked entry
ReserveLookupCreates(r, k) ==
    LET e == IF storage[k] # NoEntry THEN storage[k] ELSE Len(heap) + 1 IN
    /\ Arrives(r)
    /\ Budget(k, 1)
    /\ ~cacheW
    /\ cacheR' = cacheR \cup {r}
    /\ heap' = IF storage[k] # NoEntry THEN heap ELSE Append(heap, NewEntry(EmptyID))
    /\ storage' = [storage EXCEPT ![k] = e]
    /\ Admit(r, [req[r] EXCEPT !.op = "reserve", !.pc = "r_runlock", !.key = k,
                          !.entry = e, !.ok = TRUE,
                          !.quiet = (Quiet(r) /\ Released(k))])
    /\ UNCHANGED <<cacheW, issued, crashed, resp, known, held>>

\* RLock; entry, ok := storage[key] (main.go:83-84)
ReserveLookup(r, k) ==
    /\ Arrives(r)
    /\ Budget(k, IF storage[k] # NoEntry THEN 1 ELSE 0)
    /\ ~cacheW
    /\ cacheR' = cacheR \cup {r}
    /\ Admit(r, [req[r] EXCEPT !.op = "reserve", !.pc = "r_runlock", !.key = k,
                          !.entry = storage[k], !.ok = (storage[k] # NoEntry),
                          !.quiet = (Quiet(r) /\ Released(k))])
    /\ UNCHANGED <<storage, heap, cacheW, issued, crashed, resp, known, held>>

\* mutant of ReserveRUnlock: the read lock on the mapping is kept
ReserveRUnlockKeeps(r) ==
    /\ At(r, "reserve", "r_runlock")
    /\ cacheR' = cacheR
    /\ IF req[r].ok THEN req' = [req EXCEPT ![r].pc = "r_lock"] /\ resp' = resp
       ELSE sendError(r, "reserve", StatusNotFound)
    /\ UNCHANGED <<storage, heap, cacheW, issued, crashed, known, held>>

\* RUnlock; if !ok { 404 } (main.go:85-95)
ReserveRUnlock(r) ==
    /\ At(r, "reserve", "r_runlock")
    /\ cacheR' = cacheR \ {r}
    /\ IF req[r].ok THEN req' = [req EXCEPT ![r].pc = "r_lock"] /\ resp' = resp
       ELSE sendError(r, "reserve", StatusNotFound)
    /\ UNCHANGED <<storage, heap, cacheW, issued, crashed, known, held>>

\* entry.Lock(); for entry.lockID != "" (main.go:97-98)
ReserveLock(r) ==
    /\ At(r, "reserve", "r_lock")
    /\ LockAndTest(r, TRUE, "r_wait", "r_assign")
    /\ UNCHANGED <<storage, cacheW, cacheR, issued, crashed, resp, known, held>>

\* entry.cond.Wait() (main.go:99)
ReserveWait(r) ==
    /\ At(r, "reserve", "r_wait")
    /\ CondWait(r, "r_parked")
    /\ UNCHANGED <<storage, cacheW, cacheR, issued, crashed, resp, known, held>>

ReserveWake(r) ==
    /\ At(r, "reserve", "r_parked")
    /\ CondWake(r, "r_wait", "r_assign")
    /\ UNCHANGED <<storage, cacheW, cacheR, issued, crashed, resp, known, held>>

\* entry.lockID = uuid(); entry.Unlock() (main.go:101-102)
ReserveAssign(r) ==
    LET e == req[r].entry IN
    /\ At(r, "reserve", "r_assign")
    /\ heap' = [heap EXCEPT ![e].lockID = uuid, ![e].mu = NoOwner]
    /\ issued' = [issued EXCEPT ![req[r].key] = @ + 1]
    /\ req' = [req EXCEPT ![r].pc = "r_readid"]
    /\ UNCHANGED <<storage, cacheW, cacheR, crashed, resp, known, held>>

\* Response{entry.lockID, ...}: read after Unlock (main.go:103)
ReserveReadID(r) ==
    /\ At(r, "reserve", "r_readid")
    /\ req' = [req EXCEPT ![r].pc = "r_readvalue", ![r].rid = heap[req[r].entry].lockID]
    /\ UNCHANGED <<storage, heap, cacheW, cacheR, issued, crashed, resp, known, held>>

\* Response{..., entry.value}; res.Write(data) (main.go:103-108)
ReserveReadValue(r) ==
    /\ At(r, "reserve", "r_readvalue")
    /\ Respond(r, "reserve", StatusOK, req[r].rid, heap[req[r].entry].value)
    /\ Deliver(req[r].key, req[r].rid)
    /\ UNCHANGED <<storage, heap, cacheW, cacheR, issued, crashed>>

\* ---- handleUpdate, main.go:112-152 -----------------------------------------
\* ioutil.ReadAll fails: 500, then Unlock of a lock never taken (main.go:114-119)
UpdateBodyError(r) ==
    /\ Arrives(r)
    /\ Reject(r, "update", StatusInternalServerError)
    /\ CacheUnlock
    /\ UNCHANGED <<storage, heap, cacheR, issued, known, held>>

\* no release parameter: 400 (main.go:121-125)
UpdateNoRelease(r) ==
    /\ Arrives(r)
    /\ Reject(r, "update", StatusBadRequest)
    /\ UNCHANGED <<storage, heap, cacheW, cacheR, issued, crashed, known, held>>

\* RLock; entry, ok := storage[key] (main.go:126-132)
UpdateLookup(r, k, id, b, rel) ==
    /\ Arrives(r)
    /\ rel # <<>>
    /\ ~cacheW
    /\ cacheR' = cacheR \cup {r}
    /\ Admit(r, [req[r] EXCEPT !.op = "update", !.pc = "u_runlock", !.key = k,
                          !.lockID = id, !.body = b, !.release = rel,
                          !.entry = storage[k], !.ok = (storage[k] # NoEntry)])
    /\ UNCHANGED <<storage, heap, cacheW, issued, crashed, resp, known, held>>

\* mutant of UpdateRUnlock: the 404 answer leaves an empty entry behind
UpdateRUnlockCreates(r) ==
    /\ At(r, "update", "u_runlock")
    /\ cacheR' = cacheR \ {r}
    /\ IF req[r].ok
       THEN /\ req' = [req EXCEPT ![r].pc = "u_check"] /\ resp' = resp
            /\ UNCHANGED <<storage, heap>>
       ELSE /\ sendError(r, "update", StatusNotFound)
            /\ heap' = Append(heap, NewEntry(EmptyID))
            /\ storage' = [storage EXCEPT ![req[r].key] = Len(heap) + 1]
    /\ UNCHANGED <<cacheW, issued, crashed, known, held>>

\* RUnlock; if !ok { 404 } (main.go:133-138)
UpdateRUnlock(r) ==
    /\ At(r, "update", "u_runlock")
    /\ cacheR' = cacheR \ {r}
    /\ IF req[r].ok THEN req' = [req EXCEPT ![r].pc = "u_check"] /\ resp' = resp
       ELSE sendError(r, "update", StatusNotFound)
    /\ UNCHANGED <<storage, heap, cacheW, issued, crashed, known, held>>

\* mutant of UpdateCheck: an unlocked entry accepts any lock id
UpdateCheckUnlocked(r) ==
    /\ At(r, "update", "u_check")
    /\ IF heap[req[r].entry].lockID # EmptyID /\ heap[req[r].entry].lockID # req[r].lockID
       THEN sendError(r, "update", StatusUnauthorized)
       ELSE req' = [req EXCEPT ![r].pc = "u_write"] /\ resp' = resp
    /\ UNCHANGED <<storage, heap, cacheW, cacheR, issued, crashed, known, held>>

\* if entry.lockID != lockID { 401 } (main.go:139-142), no mutex held
UpdateCheck(r) ==
    /\ At(r, "update", "u_check")
    /\ IF heap[req[r].entry].lockID # req[r].lockID
       THEN sendError(r, "update", StatusUnauthorized)
       ELSE req' = [req EXCEPT ![r].pc = "u_write"] /\ resp' = resp
    /\ UNCHANGED <<storage, heap, cacheW, cacheR, issued, crashed, known, held>>

\* entry.value = string(body) (main.go:144); without release, 204 (main.go:151)
UpdateWrite(r) ==
    /\ At(r, "update", "u_write")
    /\ heap' = [heap EXCEPT ![req[r].entry].value = req[r].body]
    /\ IF Releasing(req[r].release)
       THEN req' = [req EXCEPT ![r].pc = "u_bcast"] /\ resp' = resp
       ELSE Respond(r, "update", StatusNoContent, EmptyID, "")
    /\ UNCHANGED <<storage, cacheW, cacheR, issued, crashed, known, held>>

\* mutant of UpdateBroadcast: the waiters of every entry are notified
UpdateBroadcastAll(r) ==
    /\ At(r, "update", "u_bcast")
    /\ heap' = [e \in DOMAIN heap |-> [heap[e] EXCEPT !.notify = {}]]
    /\ req' = [req EXCEPT ![r].pc = "u_clear"]
    /\ UNCHANGED <<storage, cacheW, cacheR, issued, crashed, resp, known, held>>

\* entry.cond.Broadcast() (main.go:147): every goroutine on the notify list is notified
UpdateBroadcast(r) ==
    /\ At(r, "update", "u_bcast")
    /\ heap' = [heap EXCEPT ![req[r].entry].notify = {}]
    /\ req' = [req EXCEPT ![r].pc = "u_clear"]
    /\ UNCHANGED <<storage, cacheW, cacheR, issued, crashed, resp, known, held>>

\* entry.lockID = "" (main.go:148); 204 (main.go:151): the client that
\* presented the lock id has given the lock up
UpdateClear(r) ==
    /\ At(r, "update", "u_clear")
    /\ heap' = [heap EXCEPT ![req[r].entry].lockID = EmptyID]
    /\ Respond(r, "update", StatusNoContent, EmptyID, "")
    /\ held' = [held EXCEPT ![req[r].key] = @ \ {req[r].lockID}]
    /\ UNCHANGED <<storage, cacheW, cacheR, issued, crashed, known>>

\* ---- handleSet, main.go:155-195 --------------------------------------------
\* ioutil.ReadAll fails: 500, then Unlock of a lock never taken (main.go:159-164)
SetBodyError(r) ==
    /\ Arrives(r)
    /\ Reject(r, "set", StatusInternalServerError)
    /\ CacheUnlock
    /\ UNCHANGED <<storage, heap, cacheR, issued, known, held>>

\* self.cache.Lock() (main.go:167)
SetLock(r, k, b) ==
    /\ Arrives(r)
    /\ Budget(k, 2)
    /\ ~cacheW /\ cacheR = {}
    /\ cacheW' = TRUE
    /\ Admit(r, [req[r] EXCEPT !.op = "set", !.pc = "s_lookup", !.key = k, !.body = b])
    /\ UNCHANGED <<storage, heap, cacheR, issued, crashed, resp, known, held>>

\* entry, ok := self.cache.storage[key] (main.go:168)
SetLookup(r) ==
    /\ At(r, "set", "s_lookup")
    /\ req' = [req EXCEPT ![r].entry = storage[req[r].key],
                          ![r].ok = (storage[req[r].key] # NoEntry),
                          ![r].pc = IF storage[req[r].key] # NoEntry THEN "s_unlock" ELSE "s_insert"]
    /\ UNCHANGED <<storage, heap, cacheW, cacheR, issued, crashed, resp, known, held>>

\* entry = new(Entry); entry.lockID = uuid(); storage[key] = entry (main.go:170-173)
SetInsert(r) ==
    /\ At(r, "set", "s_insert")
    /\ heap' = Append(heap, NewEntry(uuid))
    /\ issued' = [issued EXCEPT ![req[r].key] = @ + 1]
    /\ storage' = [storage EXCEPT ![req[r].key] = Len(heap) + 1]
    /\ req' = [req EXCEPT ![r].entry = Len(heap) + 1, ![r].pc = "s_unlock"]
    /\ UNCHANGED <<cacheW, cacheR, crashed, resp, known, held>>

\* self.cache.Unlock() (main.go:175)
SetUnlock(r) ==
    /\ At(r, "set", "s_unlock")
    /\ CacheUnlock
    /\ req' = [req EXCEPT ![r].pc = "s_elock"]
    /\ UNCHANGED <<storage, heap, cacheR, issued, resp, known, held>>

\* entry.Lock(); for ok && entry.lockID != "" (main.go:177-180)
SetEntryLock(r) ==
    /\ At(r, "set", "s_elock")
    /\ LockAndTest(r, req[r].ok, "s_wait", "s_assign")
    /\ UNCHANGED <<storage, cacheW, cacheR, issued, crashed, resp, known, held>>

\* entry.cond.Wait() (main.go:181)
SetWait(r) ==
    /\ At(r, "set", "s_wait")
    /\ CondWait(r, "s_parked")
    /\ UNCHANGED <<storage, cacheW, cacheR, issued, crashed, resp, known, held>>

SetWake(r) ==
    /\ At(r, "set", "s_parked")
    /\ CondWake(r, "s_wait", "s_assign")
    /\ UNCHANGED <<storage, cacheW, cacheR, issued, crashed, resp, known, held>>

\* entry.lockID = uuid() (main.go:184)
SetAssign(r) ==
    /\ At(r, "set", "s_assign")
    /\ heap' = [heap EXCEPT ![req[r].entry].lockID = uuid]
    /\ issued' = [issued EXCEPT ![req[r].key] = @ + 1]
    /\ req' = [req EXCEPT ![r].pc = "s_write"]
    /\ UNCHANGED <<storage, cacheW, cacheR, crashed, resp, known, held>>

\* entry.value = string(body); entry.Unlock() (main.go:185-187)
SetWrite(r) ==
    /\ At(r, "set", "s_write")
    /\ heap' = [heap EXCEPT ![req[r].entry].value = req[r].body, ![req[r].entry].mu = NoOwner]
    /\ req' = [req EXCEPT ![r].pc = "s_readid"]
    /\ UNCHANGED <<storage, cacheW, cacheR, issued, crashed, resp, known, held>>

\* Response{entry.lockID, ""}: read after Unlock; res.Write(data) (main.go:189-194)
SetReadID(r) ==
    /\ At(r, "set", "s_readid")
    /\ Respond(r, "set", StatusOK, heap[req[r].entry].lockID, "")
    /\ Deliver(req[r].key, heap[req[r].entry].lockID)
    /\ UNCHANGED <<storage, heap, cacheW, cacheR, issued, crashed>>

\* ---- the server ------------------------------------------------------------
Reserve(r) ==
    \/ \E k \in Keys : ReserveLookup(r, k)
    \/ ReserveRUnlock(r) \/ ReserveLock(r) \/ ReserveWait(r) \/ ReserveWake(r)
    \/ ReserveAssign(r) \/ ReserveReadID(r) \/ ReserveReadValue(r)

Update(r) ==
    \/ UpdateNoRelease(r)
    \/ \E k \in Keys, id \in known \cup {BogusID}, b \in Bodies, rel \in Releases :
           UpdateLookup(r, k, id, b, rel)
    \/ UpdateRUnlock(r) \/ UpdateCheck(r) \/ UpdateWrite(r)
    \/ UpdateBroadcast(r) \/ UpdateClear(r)

Set(r) ==
    \/ \E k \in Keys, b \in Bodies : SetLock(r, k, b)
    \/ SetLookup(r) \/ SetInsert(r) \/ SetUnlock(r) \/ SetEntryLock(r)
    \/ SetWait(r) \/ SetWake(r) \/ SetAssign(r) \/ SetWrite(r) \/ SetReadID(r)

BodyError(r) == UpdateBodyError(r) \/ SetBodyError(r)

\* requests whose body arrives whole
NextOK == \E r \in Reqs : Reserve(r) \/ Update(r) \/ Set(r)

SpecOK == Init /\ [][NextOK]_vars

\* any request
Next == \E r \in Reqs : Reserve(r) \/ Update(r) \/ Set(r) \/ BodyError(r)

Spec == Init /\ [][Next]_vars

TypeOK ==
    /\ storage \in [AllKeys -> 0..Len(heap)]
    /\ cacheW \in BOOLEAN /\ cacheR \subseteq Reqs
    /\ issued \in [AllKeys -> 0..MaxUUID]
    /\ known \subseteq 1..(BogusID - 1)
    /\ \A e \in DOMAIN heap : heap[e].lockID \in 0..(BogusID - 1) /\ heap[e].mu \in 0..NReq


\* ---- what the clients hold ---------------------------------------------------
\* a reserve or set returns 200 in this step
Returns(r) == ReserveReadValue(r) \/ SetReadID(r)

\* lock id t was delivered and a releasing update presenting it has taken effect
Spent(t) == t \in known /\ \A k \in AllKeys : t \notin held[k]

SameCells == \A e \in DOMAIN heap : heap'[e].value = heap[e].value /\ heap'[e].lockID = heap[e].lockID

\* goroutine r sleeps on its entry's condition variable with no wake-up pending
Asleep(r) == req[r].pc \in {"r_parked", "s_parked"} /\ r \in heap[req[r].entry].notify

\* ---- C1 ----------------------------------------------------------------------
\* C1, mutual exclusion per key: while a client holds a lock id of key k that a
\* reserve or set returned and no releasing update presenting it has taken
\* effect, no other reserve or set on k returns.
C1_MutualExclusion ==
    [][\A r \in Reqs : Returns(r) => held[req[r].key] = {}]_vars

\* ---- C2 ----------------------------------------------------------------------
\* C2, a released token is dead: once a releasing update presenting t has
\* cleared the lock, no update presenting t changes a value or a lock id.
C2_ReleasedTokenDead ==
    [][\A r \in Reqs :
          (req[r].op = "update" /\ Spent(req[r].lockID) /\ req'[r] # req[r]) => SameCells]_vars

\* ---- C3 ----------------------------------------------------------------------
\* update r has looked its entry up and not yet compared the lock ids, and
\* the lock id it presents is not the entry's
Mismatched(r) ==
    /\ req[r].op = "update" /\ req[r].pc \in {"u_runlock", "u_check"} /\ req[r].ok
    /\ heap[req[r].entry].lockID # req[r].lockID

\* C3, token gating: an update of an existing key whose presented lock id is
\* not the entry's current one still mismatches when it comes to compare them,
\* and the comparison answers 401 and leaves every entry (value, lock id,
\* mutex, waiters) and the mapping as they were, whatever the release flag.
C3_TokenGating ==
    [][\A r \in Reqs :
          /\ (Mismatched(r) /\ req'[r].pc \in {"u_runlock", "u_check"}) => Mismatched(r)'
          /\ (Mismatched(r) /\ req[r].pc = "u_check" /\ req'[r] # req[r])
             => (/\ req'[r].pc = "idle"
                 /\ resp'.op = "update" /\ resp'.status = StatusUnauthorized
                 /\ heap' = heap /\ storage' = storage)]_vars

\* an update asking for release has just been refused with 401 on a locked key
C3_Witness ==
    /\ resp.op = "update" /\ resp.status = StatusUnauthorized /\ Releasing(resp.release)
    /\ storage[resp.key] # NoEntry
    /\ heap[storage[resp.key]].lockID # EmptyID


\* ---- C4 ----------------------------------------------------------------------
\* C4, set always locks: when set(key, v) returns lock id t, the key's entry
\* holds value v and lock id t, and no step of a set clears a lock id.
C4_SetAlwaysLocks ==
    [][\A r \in Reqs :
          /\ SetReadID(r) =>
                /\ storage[req[r].key] = req[r].entry
                /\ heap[req[r].entry].value = req[r].body
                /\ resp'.rid # EmptyID
                /\ heap'[req[r].entry].lockID = resp'.rid
          /\ (req[r].op = "set" /\ req'[r] # req[r]) =>
                \A e \in DOMAIN heap : heap[e].lockID # EmptyID => heap'[e].lockID # EmptyID]_vars

\* ---- C5 ----------------------------------------------------------------------
\* a reserve in service that arrived right after a successful releasing update
\* on its key (resp is still that update's response), with no other request
\* in service then or since
C5_Case(r) == req[r].op = "reserve" /\ req[r].quiet

\* C5, release semantics: such a reserve finds its entry's mutex free and its
\* lock id empty, never waits on the condition variable, and returns 200 with
\* a lock id delivered to no client before, installed in the entry, and the
\* value the update stored.
C5_ReleaseSemantics ==
    /\ [](\A r \in Reqs : C5_Case(r) =>
             /\ req[r].ok
             /\ req[r].pc \notin {"r_wait", "r_parked"}
             /\ req[r].pc = "r_lock" =>
                   (heap[req[r].entry].mu = NoOwner /\ heap[req[r].entry].lockID = EmptyID))
    /\ [][\A r \in Reqs : (C5_Case(r) /\ req'[r].pc = "idle") =>
             /\ resp'.op = "reserve" /\ resp'.status = StatusOK
             /\ resp'.rid # EmptyID /\ resp'.rid \notin known
             /\ heap'[req[r].entry].lockID = resp'.rid
             /\ resp'.rvalue = resp.body]_vars

\* such a reserve is about to answer
C5_Witness == \E r \in Reqs : C5_Case(r) /\ req[r].pc = "r_readvalue"

\* ---- C6 ----------------------------------------------------------------------
\* C6, wake-up on release: no request sleeps on an entry's condition variable,
\* no wake-up pending, while the entry's lock id is empty and no other request
\* is in service (nothing is left that would ever wake it).
C6_WakeUpOnRelease ==
    \A r \in Reqs : ~(Asleep(r) /\ heap[req[r].entry].lockID = EmptyID /\ Quiet(r))

\* ---- C7 ----------------------------------------------------------------------
\* C7, retention: when an update without release succeeds, the entry holds its
\* value, the entry's lock id is still the one it presented, and no waiter
\* was woken.
C7_Retention ==
    [][\A r \in Reqs :
          (req[r].op = "update" /\ req[r].pc = "u_write" /\ req'[r].pc = "idle") =>
             /\ heap'[req[r].entry].value = req[r].body
             /\ heap'[req[r].entry].lockID = req[r].lockID
             /\ heap'[req[r].entry].notify = heap[req[r].entry].notify]_vars

\* ---- C8 ----------------------------------------------------------------------
\* the clients of C8: set requests, and the holder of a key's lock releasing it
\* with one update at a time
HolderUpdate(r) ==
    \/ /\ \A q \in Reqs : req[q].op # "update"
       /\ \E k \in Keys, b \in Bodies : \E id \in held[k] : UpdateLookup(r, k, id, b, <<"true">>)
    \/ UpdateRUnlock(r) \/ UpdateCheck(r) \/ UpdateWrite(r)
    \/ UpdateBroadcast(r) \/ UpdateClear(r)

NextSets == \E r \in Reqs : Set(r) \/ HolderUpdate(r)

SpecSets == Init /\ [][NextSets]_vars

\* one entry per key ever inserted, and at most one delivered lock id per key
\* that its holder has not released
C8_OneAtATime ==
    /\ Len(heap) = Cardinality({k \in Keys : storage[k] # NoEntry})
    /\ \A k \in Keys : Cardinality(held[k]) <= 1

\* C8, concurrent sets of one new key: one entry is inserted, the second set
\* does not return before the first caller's releasing update, and it does
\* return after it: it is not left asleep on the unlocked entry.
C8_TwoSets ==
    /\ C8_OneAtATime
    /\ \A r \in Reqs :
          ~(req[r].op = "set" /\ Asleep(r) /\ heap[req[r].entry].lockID = EmptyID /\ Quiet(r))

\* ---- C9 ----------------------------------------------------------------------
\* no set naming key k has got as far as the mapping
NeverSet(k) == storage[k] = NoEntry /\ \A q \in Reqs : ~(req[q].op = "set" /\ req[q].key = k)

\* C9, no-create-on-reserve: a reserve of a key never set found no entry, is
\* not waiting, answers 404, and no step of a reserve changes the mapping or
\* allocates an entry.
C9_NoCreateOnReserve ==
    /\ [](\A r \in Reqs : (req[r].op = "reserve" /\ NeverSet(req[r].key)) =>
             (~req[r].ok /\ req[r].pc = "r_runlock"))
    /\ [][\A r \in Reqs :
             /\ (req[r].op = "reserve" /\ NeverSet(req[r].key) /\ req'[r].pc = "idle") =>
                   (resp'.op = "reserve" /\ resp'.status = StatusNotFound)
             /\ (Reserve(r) => (storage' = storage /\ Len(heap') = Len(heap)))]_vars

\* a reserve of a key never set has just been answered 404
C9_Witness ==
    /\ resp.op = "reserve" /\ resp.status = StatusNotFound
    /\ NeverSet(resp.key)

\* ---- C10 ---------------------------------------------------------------------
\* request r is answered with an error in this step
ErrorStep(r) ==
    \/ BodyError(r) \/ UpdateNoRelease(r)
    \/ (req[r].pc # "idle" /\ req'[r].pc = "idle" /\ resp'.status >= StatusBadRequest)

\* C10, no fatal error path: no step ends the process, and a step that answers
\* with an error leaves the mapping's write lock, the mapping and every entry
\* as they were.
C10_NoFatalPath ==
    [][/\ ~crashed'
       /\ \A r \in Reqs : ErrorStep(r) =>
             (cacheW' = cacheW /\ storage' = storage /\ heap' = heap)]_vars

\* ---- C11 ---------------------------------------------------------------------
\* the positions whose next step reads or writes entry.value or entry.lockID
\* (main.go:98, 101, 103, 139, 144, 148, 180, 184, 185, 189)
AccessPcs ==
    {"r_lock", "r_parked", "r_assign", "r_readid", "r_readvalue",
     "u_check", "u_write", "u_clear",
     "s_elock", "s_parked", "s_assign", "s_write", "s_readid"}

\* request r makes such an access in this step
Accesses(r) == req[r].pc \in AccessPcs /\ req'[r].pc # req[r].pc

\* update r has compared the lock ids and not yet finished
InUpdateSection(r) == req[r].op = "update" /\ req[r].pc \in {"u_write", "u_bcast", "u_clear"}

\* C11, entry lock discipline: a request reads or writes an entry's value or
\* lock id only in a step in which it holds the entry's mutex (taken before
\* the step, or by the step's own Lock), and no other request accesses an
\* entry between an update's comparison of the lock ids and its last write.
C11_EntryLockDiscipline ==
    [][\A r \in Reqs :
          /\ Accesses(r) =>
                (heap[req[r].entry].mu = r \/ heap'[req[r].entry].mu = r)
          /\ InUpdateSection(r) =>
                \A q \in Reqs \ {r} : ~(Accesses(q) /\ req[q].entry = req[r].entry)]_vars

\* ---- C12 ---------------------------------------------------------------------
\* C12, release ordering: no request is asleep on an entry's condition
\* variable, no wake-up pending, while the entry's lock id is empty.
C12_ReleaseOrdering ==
    \A r \in Reqs : ~(Asleep(r) /\ heap[req[r].entry].lockID = EmptyID)

\* ---- C13 ---------------------------------------------------------------------
\* set r has inserted a new entry and has not yet finished its first write
Creating(r) ==
    /\ req[r].op = "set" /\ ~req[r].ok
    /\ req[r].pc \in {"s_unlock", "s_elock", "s_assign", "s_write"}

\* C13, creation race: a new entry enters the mapping with a lock id set;
\* from then until the creating set's first write no reserve and no other
\* set on the key returns 200 and no update on it returns 204; and no reserve
\* ever returns the initial empty value.
C13_CreationRace ==
    [][/\ \A r \in Reqs :
             (req[r].pc = "s_insert" /\ req'[r].pc = "s_unlock") =>
                 (/\ storage'[req[r].key] = req'[r].entry
                  /\ heap'[req'[r].entry].lockID # EmptyID)
       /\ \A r \in Reqs : \A q \in Reqs \ {r} :
             (/\ Creating(r) /\ req[q].key = req[r].key
              /\ req[q].pc # "idle" /\ req'[q].pc = "idle")
             => resp'.status \notin {StatusOK, StatusNoContent}
       /\ \A q \in Reqs :
             (req[q].pc = "r_readvalue" /\ req'[q].pc = "idle") => resp'.rvalue # ""]_vars

\* ---- requests naming two keys --------------------------------------------------
\* the clients of the cross-key claims: sets and reserves on either key, and
\* releasing updates presenting a lock id their client holds for the key;
\* sets store "x" and updates "y"; no request arrives once the run's uuid()
\* calls are used up
Cap(n) == Calls(AllKeys) + SumNeed(Reqs) + n <= MaxCalls

UpdateKeys(r) ==
    \/ \E k \in AllKeys : \E id \in held[k] : UpdateLookup(r, k, id, "y", <<"true">>)
    \/ UpdateRUnlock(r) \/ UpdateCheck(r) \/ UpdateWrite(r)
    \/ UpdateBroadcast(r) \/ UpdateClear(r)

ReserveKeys(r) ==
    \/ \E k \in AllKeys : Cap(1) /\ ReserveLookup(r, k)
    \/ ReserveRUnlock(r) \/ ReserveLock(r) \/ ReserveWait(r) \/ ReserveWake(r)
    \/ ReserveAssign(r) \/ ReserveReadID(r) \/ ReserveReadValue(r)

SetKeys(r) ==
    \/ \E k \in AllKeys : Cap(2) /\ SetLock(r, k, "x")
    \/ SetLookup(r) \/ SetInsert(r) \/ SetUnlock(r) \/ SetEntryLock(r)
    \/ SetWait(r) \/ SetWake(r) \/ SetAssign(r) \/ SetWrite(r) \/ SetReadID(r)

NextKeys == \E r \in Reqs : ReserveKeys(r) \/ UpdateKeys(r) \/ SetKeys(r) \/ BodyError(r)

SpecKeys == Init /\ [][NextKeys]_vars

\* ---- C14 ---------------------------------------------------------------------
\* the next step of the handler goroutine r is running
Proceed(r) ==
    \/ ReserveRUnlock(r) \/ ReserveLock(r) \/ ReserveWait(r) \/ ReserveWake(r)
    \/ ReserveAssign(r) \/ ReserveReadID(r) \/ ReserveReadValue(r)
    \/ UpdateRUnlock(r) \/ UpdateCheck(r) \/ UpdateWrite(r)
    \/ UpdateBroadcast(r) \/ UpdateClear(r)
    \/ SetLookup(r) \/ SetInsert(r) \/ SetUnlock(r) \/ SetEntryLock(r)
    \/ SetWait(r) \/ SetWake(r) \/ SetAssign(r) \/ SetWrite(r) \/ SetReadID(r)

\* r is between cache.RLock() and RUnlock(), or between cache.Lock() and Unlock()
HoldsCache(r) ==
    \/ r \in cacheR
    \/ req[r].op = "set" /\ req[r].pc \in {"s_lookup", "s_insert", "s_unlock"}

\* the entries whose mutex r holds
EntriesLocked(r) == {e \in DOMAIN heap : heap[e].mu = r}

\* r is about to call entry.Lock(), holds an entry's mutex, or is in cond.Wait()
OnEntryLock(r) ==
    \/ req[r].pc \in {"r_lock", "r_wait", "r_parked", "r_assign",
                      "s_elock", "s_wait", "s_parked", "s_assign", "s_write"}
    \/ EntriesLocked(r) # {}

\* C14, two-tier lock ordering: a request holding the mapping lock, shared or
\* exclusive, neither holds, nor is acquiring, nor waits on an entry's mutex;
\* no request holds the mutexes of two entries; and a request that holds any
\* lock is never itself blocked (its next step can be taken), so that no
\* cycle of lock waits exists.
C14_LockOrdering ==
    \A r \in Reqs :
        /\ HoldsCache(r) => ~OnEntryLock(r)
        /\ Cardinality(EntriesLocked(r)) <= 1
        /\ (~crashed /\ (HoldsCache(r) \/ EntriesLocked(r) # {})) => ENABLED Proceed(r)

\* a request holds an entry's mutex while a request on another key holds the
\* mapping lock
C14_Witness ==
    \E r \in Reqs, q \in Reqs :
        /\ EntriesLocked(r) # {} /\ HoldsCache(q)
        /\ req[q].key # req[r].key

\* ---- C15 ---------------------------------------------------------------------
\* two keys, requests whose body arrives whole
NextKeysOK == \E r \in Reqs : ReserveKeys(r) \/ UpdateKeys(r) \/ SetKeys(r)

SpecKeysOK == Init /\ [][NextKeysOK]_vars

\* r is inside entry.cond.Wait() (main.go:99, 181)
Suspended(r) == req[r].pc \in {"r_parked", "s_parked"}

\* C15, cross-key independence: a request suspended in the wait loop holds
\* neither the mapping lock nor an entry's mutex, and while the other requests
\* are suspended on a locked key k, a request on another key k2 is not left
\* asleep on k2's condition variable with k2's lock id empty (it completes).
C15_CrossKeyIndependence ==
    /\ \A q \in Reqs : Suspended(q) => (~HoldsCache(q) /\ EntriesLocked(q) = {})
    /\ \A r \in Reqs :
          ~(/\ Asleep(r) /\ heap[req[r].entry].lockID = EmptyID
            /\ \A q \in Reqs \ {r} :
                  /\ Suspended(q) /\ req[q].key # req[r].key
                  /\ heap[req[q].entry].lockID # EmptyID)

\* ---- C16 ---------------------------------------------------------------------
\* request r is answered in this step
Answered(r) == req[r].pc # "idle" /\ req'[r].pc = "idle"

\* C16, failed updates leave the store unchanged: an update without release
\* parameter is answered 400 without touching the mapping or its lock; an
\* update is answered 404 exactly when its lookup found no entry and, being
\* past that, 401 exactly when the lock id it presents is not the entry's;
\* and no step of an update up to and including a 400, 404 or 401 answer
\* changes the mapping or any entry, or allocates one.
C16_FailedUpdate ==
    [][/\ (resp' # resp /\ resp'.op = "update" /\ resp'.status = StatusBadRequest) =>
             (storage' = storage /\ heap' = heap /\ cacheR' = cacheR /\ cacheW' = cacheW)
       /\ \A r \in Reqs :
             /\ (req'[r] # req[r] /\ req'[r].op = "update" /\ req'[r].pc \in {"u_runlock", "u_check"}) =>
                   /\ storage' = storage /\ heap' = heap
                   /\ req'[r].pc = "u_runlock" => req'[r].ok = (storage[req'[r].key] # NoEntry)
             /\ (req[r].op = "update" /\ req[r].pc = "u_runlock" /\ req'[r] # req[r]) =>
                   ((Answered(r) /\ resp'.status = StatusNotFound) <=> ~req[r].ok)
             /\ (req[r].op = "update" /\ req[r].pc = "u_check" /\ req'[r] # req[r]) =>
                   ((Answered(r) /\ resp'.status = StatusUnauthorized)
                       <=> heap[req[r].entry].lockID # req[r].lockID)
             /\ (req[r].op = "update" /\ Answered(r)
                   /\ resp'.status \in {StatusNotFound, StatusUnauthorized}) =>
                   (storage' = storage /\ heap' = heap)]_vars

\* an update of a key that is not in the mapping has just been answered 404
C16_Witness ==
    /\ resp.op = "update" /\ resp.status = StatusNotFound
    /\ storage[resp.key] = NoEntry

\* ---- C17 ---------------------------------------------------------------------
\* C17, single insertion and monotonic growth: the mapping changes only in
\* the insertion step of a set, which binds a key that had no entry to a new
\* entry; a bound key keeps its entry; one entry is allocated per bound key;
\* and a set that finds its key bound uses the entry bound to it.
C17_SingleInsertion ==
    /\ [](Len(heap) = Cardinality({k \in AllKeys : storage[k] # NoEntry}))
    /\ [](\A r \in Reqs : (req[r].op = "set" /\ req[r].entry # NoEntry) =>
             storage[req[r].key] = req[r].entry)
    /\ [][/\ \A k \in AllKeys : storage[k] # NoEntry => storage'[k] = storage[k]
          /\ storage' # storage =>
                \E r \in Reqs :
                    /\ req[r].op = "set" /\ req[r].pc = "s_insert"
                    /\ req'[r].pc = "s_unlock"
                    /\ storage[req[r].key] = NoEntry
                    /\ storage' = [storage EXCEPT ![req[r].key] = Len(heap) + 1]]_vars

\* ---- C18 ---------------------------------------------------------------------
\* C18, a value changes only through the holder: every change of an entry's
\* value is made by a set that holds the entry's mutex or by an update whose
\* lock id is the entry's current, non-empty one; an update passes the
\* comparison only with the entry's current non-empty lock id; and no step
\* of a reserve changes a value.
C18_ValueOnlyThroughHolder ==
    [][/\ \A e \in DOMAIN heap :
             heap'[e].value # heap[e].value =>
                 \E r \in Reqs :
                     /\ req[r].entry = e /\ req'[r] # req[r]
                     /\ \/ req[r].op = "set" /\ heap[e].mu = r
                        \/ /\ req[r].op = "update"
                           /\ heap[e].lockID # EmptyID
                           /\ req[r].lockID = heap[e].lockID
       /\ \A r \in Reqs :
             /\ (req[r].op = "update" /\ req[r].pc = "u_check" /\ req'[r].pc = "u_write") =>
                   (heap[req[r].entry].lockID # EmptyID
                       /\ req[r].lockID = heap[req[r].entry].lockID)
             /\ (req[r].op = "reserve" /\ req'[r].pc # req[r].pc) =>
                   \A e \in DOMAIN heap : heap'[e].value = heap[e].value]_vars

\* ---- C19 ---------------------------------------------------------------------
\* values of the release parameter: lists whose first value is or is not "true"
ReleaseTexts ==
    {<<"true">>, <<"false">>, <<"">>, <<"TRUE">>, <<"false", "true">>, <<"true", "false">>}

\* updates with any release parameter, presenting a lock id the client holds
\* or one never issued
UpdateText(r) ==
    \/ \E k \in Keys, rel \in ReleaseTexts :
           \E id \in held[k] \cup {BogusID} : UpdateLookup(r, k, id, "y", rel)
    \/ UpdateRUnlock(r) \/ UpdateCheck(r) \/ UpdateWrite(r)
    \/ UpdateBroadcast(r) \/ UpdateClear(r)

NextRelease == \E r \in Reqs : Reserve(r) \/ Set(r) \/ UpdateText(r)

SpecRelease == Init /\ [][NextRelease]_vars

\* C19, release only on "true": an update that passed the comparison stores
\* its body; when the first value of its release parameter is not exactly
\* "true" it answers 204 in that step and changes neither the entry's lock id
\* nor its waiters; and only an update whose first release value is "true"
\* ever clears a lock id or wakes a waiter.
C19_ReleaseOnlyOnTrue ==
    [][\A r \in Reqs :
          /\ (req[r].op = "update" /\ req[r].pc = "u_write" /\ req'[r] # req[r]) =>
                /\ heap'[req[r].entry].value = req[r].body
                /\ IF req[r].release[1] = "true"
                   THEN req'[r].pc = "u_bcast"
                   ELSE /\ Answered(r) /\ resp'.status = StatusNoContent
                        /\ heap'[req[r].entry].lockID = heap[req[r].entry].lockID
                        /\ heap'[req[r].entry].notify = heap[req[r].entry].notify
          /\ (/\ req[r].op = "update" /\ req'[r] # req[r]
              /\ \E e \in DOMAIN heap :
                    \/ heap'[e].lockID # heap[e].lockID
                    \/ ~(heap[e].notify \subseteq heap'[e].notify))
             => req[r].release[1] = "true"]_vars

\* an update whose release parameter is neither absent nor "true" has just
\* been answered 204 and the key is still locked
C19_Witness ==
    /\ resp.op = "update" /\ resp.status = StatusNoContent
    /\ resp.release \in {<<"">>, <<"TRUE">>, <<"false", "true">>}
    /\ heap[storage[resp.key]].lockID # EmptyID

\* ---- C20 ---------------------------------------------------------------------
\* C20, key isolation: a step of a request on key k leaves every other key
\* bound to the same entry and leaves that entry (value, lock id, mutex and
\* the goroutines waiting on it) as it was.
C20_KeyIsolation ==
    [][\A r \in Reqs :
          req'[r].pc # req[r].pc =>
             LET k == IF req[r].pc = "idle" THEN req'[r].key ELSE req[r].key IN
             \A k2 \in AllKeys \ {k} :
                 storage[k2] # NoEntry =>
                     /\ storage'[k2] = storage[k2]
                     /\ heap'[storage[k2]] = heap[storage[k2]]]_vars

\* a releasing update on one key has broadcast while a request sleeps on
\* another key's entry
C20_Witness ==
    \E r \in Reqs, q \in Reqs :
        /\ Asleep(r)
        /\ req[q].op = "update" /\ req[q].pc = "u_clear"
        /\ req[q].key # req[r].key

====
